---- MODULE Spec2Model ----
(***************************************************************************)
(* Content lifecycle of the Clinikk TV backend: the content routes, the    *)
(* ContentController, the ContentService (relational store) and the       *)
(* StorageService (S3 object store), with one task per inbound request,     *)
(* and the identity side: the auth routes, the AuthService and the bearer   *)
(* check that stands before the routes that change content.                 *)
(*                                                                         *)
(* Strings that the code builds and parses (file names, object keys,       *)
(* storage URLs) are sequences of tokens, so that building a URL and        *)
(* parsing it back are two different computations.                          *)
(***************************************************************************)
EXTENDS Integers, Sequences, FiniteSets, TLC

VARIABLES
    records,   \* the contents table: id -> row, or NoRow
    blobs,     \* the object store: the set of keys that hold an object
    req,       \* one request task per slot: its inputs, position and response
    nextId,    \* index of the next value uuid.uuid4() returns
    started,   \* number of requests received so far
    loop,      \* the coroutine that holds the event loop, or NoProc
    deleted,   \* history: the ids whose DELETE was answered 200
    users      \* the users table, in insertion order

vars == <<records, blobs, req, nextId, started, loop, deleted, users>>

-----------------------------------------------------------------------------
(* Bounds of the model *)

MaxId == 2        \* content ids that uuid4 hands out
MaxReq == 3       \* requests received in one behaviour

-----------------------------------------------------------------------------
(* Values *)

Procs == {"p1", "p2"}
NoProc == "none"
UUIDs == <<"u1", "u2", "u3", "u4">>
Ids == {UUIDs[i] : i \in 1..MaxId}

None == <<>>
Some(v) == <<v>>

NoRow == [absent |-> TRUE]

\* enum ContentType
VIDEO == "video"
AUDIO == "audio"
ContentType == {VIDEO, AUDIO}

\* settings.STORAGE_BUCKET / settings.AWS_REGION as they appear in the URL
BucketHost == "bucket.s3.region.amazonaws.com"

\* Uploaded files: the client's file name and declared MIME type
Files ==
    { [filename |-> <<"a", ".", "mp4">>,            content_type |-> "video/mp4"],
      [filename |-> <<"b", ".", "mpeg">>,           content_type |-> "video/mpeg"],
      [filename |-> <<"c", ".", "mp3">>,            content_type |-> "audio/mpeg"],
      [filename |-> <<"d", ".", "mp4", "#", "t">>,  content_type |-> "video/mp4"] }
NoFile == [filename |-> <<>>, content_type |-> "none"]

\* Form of POST /content/
CreateForms ==
    { [title |-> "t1", description |-> "d1", content_type |-> ct,
       duration |-> 10, thumbnail_url |-> Some("th1")] : ct \in ContentType }

\* Form of PUT /content/{id}: a field the client left out arrives as None
UpdateForms ==
    { [title |-> Some("t2"), description |-> None,       duration |-> None,     thumbnail_url |-> None],
      [title |-> Some("t2"), description |-> Some("d2"), duration |-> Some(20), thumbnail_url |-> None] }
NoForm == [none |-> TRUE]

-----------------------------------------------------------------------------
(* Pure functions of the services *)

\* Mutant: the audio allow-list lacks audio/wav
validate_file_type_without_wav(file, content_type) ==
    IF content_type = "video"
    THEN file.content_type \in {"video/mp4", "video/mpeg"}
    ELSE IF content_type = "audio"
         THEN file.content_type \in {"audio/mpeg", "audio/mp3"}
         ELSE FALSE

\* Mutant: the type check looks at the container only, not at the family
validate_file_type_by_container(file, content_type) ==
    IF content_type \in {"video", "audio"}
    THEN file.content_type \in {"video/mp4", "video/mpeg", "audio/mpeg", "audio/mp3", "audio/wav"}
    ELSE FALSE

\* ContentService.validate_file_type
validate_file_type(file, content_type) ==
    IF content_type = "video"
    THEN file.content_type \in {"video/mp4", "video/mpeg"}
    ELSE IF content_type = "audio"
         THEN file.content_type \in {"audio/mpeg", "audio/mp3", "audio/wav"}
         ELSE FALSE

\* Positions of token t in sequence s
Positions(s, t) == {i \in 1..Len(s) : s[i] = t}
Max(S) == CHOOSE x \in S : \A y \in S : y <= x
Min(S) == CHOOSE x \in S : \A y \in S : x <= y

\* file.filename.split('.')[-1]
file_extension(filename) ==
    IF Positions(filename, ".") = {}
    THEN filename
    ELSE SubSeq(filename, Max(Positions(filename, ".")) + 1, Len(filename))

\* Mutant: the key is made of the content type and the extension alone
unique_filename_without_id(file, content_type, content_id) ==
    <<content_type, "/", "content", ".">> \o file_extension(file.filename)

\* Mutant: the object is named after the uploaded file, not after the record
unique_filename_by_name(file, content_type, content_id) ==
    <<content_type, "/">> \o file.filename

\* f"{ct}/{str(content_id)}.{file_extension}"
unique_filename(file, content_type, content_id) ==
    <<content_type, "/", content_id, ".">> \o file_extension(file.filename)

\* f"https://{bucket}.s3.{region}.amazonaws.com/{unique_filename}"
object_url(key) == <<"https://", BucketHost, "/">> \o key

\* urlparse(url).path: what follows the host, up to the query or the fragment,
\* without the parameters of the last path segment
urlparse_path(url) ==
    LET rest == SubSeq(url, 3, Len(url))
        cut  == Positions(rest, "?") \cup Positions(rest, "#")
        p1   == IF cut = {} THEN rest ELSE SubSeq(rest, 1, Min(cut) - 1)
        sl   == Positions(p1, "/")
        last == IF sl = {} THEN 0 ELSE Max(sl)
        semi == {i \in Positions(p1, ";") : i > last}
    IN  IF semi = {} THEN p1 ELSE SubSeq(p1, 1, Min(semi) - 1)

\* str.lstrip('/')
RECURSIVE lstrip_slash(_)
lstrip_slash(s) ==
    IF s # <<>> /\ Head(s) = "/" THEN lstrip_slash(Tail(s)) ELSE s

\* key = urlparse(storage_url).path.lstrip('/')
url_key(storage_url) == lstrip_slash(urlparse_path(storage_url))

-----------------------------------------------------------------------------
(* Object store (S3) as the StorageService uses it *)

\* What one call to the object store can end with
S3Outcomes == {"ok", "ClientError", "Exception"}

\* s3_client.upload_fileobj(file.file, bucket, unique_filename)
s3_upload_fileobj(store, key) == store \cup {key}

\* s3_client.delete_object(Bucket, Key): deleting a missing key is no error
s3_delete_object(store, key) == store \ {key}

\* Mutant: upload_file logs the exception and returns the URL all the same
upload_file_result_swallowed(file, content_type, content_id, outcome) ==
    Some(object_url(unique_filename(file, content_type, content_id)))

\* StorageService.upload_file: the URL it returns, or None when it raises
\* S3UploadException (every exception of the upload is wrapped)
upload_file_result(file, content_type, content_id, outcome) ==
    IF outcome = "ok"
    THEN Some(object_url(unique_filename(file, content_type, content_id)))
    ELSE None

\* Mutant: only the ClientError branch wraps; anything else leaves as it is
upload_file_raises_unwrapped(outcome) ==
    IF outcome = "ok" THEN "none"
    ELSE IF outcome = "ClientError" THEN "S3UploadException" ELSE outcome

\* StorageService.upload_file, lines 86-91: the kind of error that leaves
\* the function ("none" when it returns)
upload_file_raises(outcome) ==
    IF outcome = "ok" THEN "none" ELSE "S3UploadException"

upload_file_store(store, file, content_type, content_id, outcome) ==
    IF outcome = "ok"
    THEN s3_upload_fileobj(store, unique_filename(file, content_type, content_id))
    ELSE store

\* StorageService.delete_file: the store after the call; it raises
\* S3UploadException exactly when the outcome is not "ok"
delete_file_store(store, file_url, outcome) ==
    IF outcome = "ok" THEN s3_delete_object(store, url_key(file_url)) ELSE store

\* expiration: int = 3600
DefaultExpiration == 3600

\* urllib.parse.quote as botocore applies it to the key and Starlette to a
\* redirect target: a character outside the safe set is percent-encoded
percent_encode(s) == [i \in DOMAIN s |-> IF s[i] = " " THEN "%20" ELSE s[i]]

\* StorageService.generate_presigned_url: signing is local to the client; a
\* ClientError gives None, any other exception leaves the function
generate_presigned_url(storage_url, outcome) ==
    IF outcome = "ok"
    THEN Some([path      |-> percent_encode(url_key(storage_url)),
               ExpiresIn |-> DefaultExpiration])
    ELSE None

\* lines 108-118: the kind of error that leaves generate_presigned_url; only
\* ClientError is caught
generate_presigned_url_raises(outcome) ==
    IF outcome \in {"ok", "ClientError"} THEN "none" ELSE outcome

\* RedirectResponse(url=presigned_url): the Location header is the quoted URL
redirect_location(url) == [url EXCEPT !.path = percent_encode(@)]

-----------------------------------------------------------------------------
(* Relational store as the ContentService uses it *)

DbOutcomes == {"ok", "error"}

\* Content(id=content_id, **content.model_dump(), storage_url=storage_url)
\* created_at is the server default now() of the one INSERT that carries
\* content_id, so that instant is named by the identifier.
new_row(content, content_id, storage_url) ==
    [id            |-> content_id,
     title         |-> content.title,
     description   |-> content.description,
     content_type  |-> content.content_type,
     duration      |-> content.duration,
     thumbnail_url |-> content.thumbnail_url,
     storage_url   |-> storage_url,
     created_at    |-> <<"now", content_id>>]

\* Columns declared nullable=False that an update can name
NotNullable == {"title", "description", "duration"}

\* A column of a row as an optional value
Col(row, k) ==
    IF k = "thumbnail_url" THEN row.thumbnail_url ELSE Some(row[k])

\* setattr(db_content, key, value) as the UPDATE statement stores it
SetCol(row, k, v) ==
    IF k = "thumbnail_url" THEN [row EXCEPT !.thumbnail_url = v]
    ELSE [row EXCEPT ![k] = v[1]]

\* Mutant: ContentUpdate also carries a content_type, which the form sets
content_update_dict_with_type(form) ==
    [k \in {"title", "description", "duration", "thumbnail_url", "content_type"} |->
        IF k = "content_type" THEN Some("audio") ELSE form[k]]

\* content_update.dict(exclude_unset=True): the route passes all four fields
\* to the ContentUpdate constructor, so all four are set, None included
content_update_dict(form) ==
    [k \in {"title", "description", "duration", "thumbnail_url"} |-> form[k]]

\* update_data["storage_url"] = new_storage_url
with_storage_url(update_data, url) ==
    [k \in DOMAIN update_data \cup {"storage_url"} |->
        IF k = "storage_url" THEN Some(url) ELSE update_data[k]]

\* Attributes whose value differs from the loaded one: the SET clause
changed_columns(db_content, update_data) ==
    {k \in DOMAIN update_data : update_data[k] # Col(db_content, k)}

\* The UPDATE violates a NOT NULL constraint
violates_not_null(db_content, update_data) ==
    \E k \in changed_columns(db_content, update_data) \cap NotNullable :
        update_data[k] = None

RECURSIVE apply_columns(_, _, _)
apply_columns(row, update_data, ks) ==
    IF ks = {} THEN row
    ELSE LET k == CHOOSE x \in ks : TRUE
         IN apply_columns(SetCol(row, k, update_data[k]), update_data, ks \ {k})

\* ContentService.update_content: commit succeeds exactly when the database
\* answers, the row is still there and no constraint is violated
update_commits(table, db_content, update_data, outcome) ==
    /\ outcome = "ok"
    /\ table[db_content.id] # NoRow
    /\ ~violates_not_null(db_content, update_data)

\* Mutant: the commit carries the storage_url alone when there is one, and
\* the metadata is left for a later write
update_row_url_first(table, db_content, update_data) ==
    apply_columns(table[db_content.id], update_data,
                  IF "storage_url" \in changed_columns(db_content, update_data)
                  THEN {"storage_url"}
                  ELSE changed_columns(db_content, update_data))

update_row(table, db_content, update_data) ==
    apply_columns(table[db_content.id], update_data,
                  changed_columns(db_content, update_data))

\* Mutant: the row is marked deleted but the session is never committed
delete_content_row_uncommitted(table, db_content) == table

\* ContentService.delete_content: db.delete(db_content); db.commit()
delete_content_row(table, db_content) ==
    [table EXCEPT ![db_content.id] = NoRow]

\* db.query(Content).offset(skip).limit(limit).all(), in primary-key order
RECURSIVE rows_from(_, _)
rows_from(table, i) ==
    IF i > MaxId THEN <<>>
    ELSE (IF table[UUIDs[i]] = NoRow THEN <<>> ELSE <<table[UUIDs[i]]>>)
         \o rows_from(table, i + 1)

\* Mutant: the page holds one row whatever the limit
get_contents_one_row(table, skip, limit) ==
    LET all == rows_from(table, 1)
    IN  SubSeq(all, skip + 1, IF skip + 1 < Len(all) THEN skip + 1 ELSE Len(all))

get_contents(table, skip, limit) ==
    LET all == rows_from(table, 1)
        lo  == skip + 1
        hi  == IF skip + limit < Len(all) THEN skip + limit ELSE Len(all)
    IN  SubSeq(all, lo, hi)

-----------------------------------------------------------------------------
(* Identity: the users table, password hashes and bearer tokens *)

\* Addresses as clients send them
Emails == { <<"a", "@", "x.com">>, <<"a", "@", "X.COM">>, <<"b", "@", "x.com">> }

\* str.lower on the tokens that have an upper-case letter
lower(token) == IF token = "X.COM" THEN "x.com" ELSE token

\* EmailStr: validation lower-cases the domain and keeps the local part
email_str(email) == [email EXCEPT ![3] = lower(@)]

\* Passwords as clients send them, none longer than the 72 bytes bcrypt
\* reads: what bcrypt reads of a password, and the rest
Passwords ==
    { [head |-> "pw",    tail |-> ""],
      [head |-> "other", tail |-> ""] }

\* pwd_context.hash(password), salt left out
get_password_hash(password) == [scheme |-> "bcrypt", digest_of |-> password.head]

\* pwd_context.verify(plain_password, hashed_password)
verify_password(plain_password, hashed_password) ==
    hashed_password.scheme = "bcrypt" /\ hashed_password.digest_of = plain_password.head

\* User(email=..., hashed_password=...), is_active by its default
new_user(email, hashed_password) ==
    [email |-> email, hashed_password |-> hashed_password, is_active |-> TRUE]

\* db.query(User).filter(User.email == email).first()
get_user_by_email(table, email) ==
    LET found == {i \in DOMAIN table : table[i].email = email}
    IN  IF found = {} THEN NoRow ELSE table[Min(found)]

\* The users table the content requests run against: one registered account
SeedUsers == << new_user(<<"a", "@", "x.com">>, get_password_hash([head |-> "pw", tail |-> ""])) >>

\* create_access_token(data={"sub": email}): signed with SECRET_KEY, not yet
\* expired when it is issued
create_access_token(email) == [sub |-> Some(email), signed |-> TRUE, expired |-> FALSE]

\* jwt.decode(token, SECRET_KEY, algorithms): the payload, or None for JWTError
jwt_decode(token) ==
    IF token.signed /\ ~token.expired THEN Some([sub |-> token.sub]) ELSE None

\* What a client can put in the Authorization header: nothing, or a bearer
\* token that is good, expired, signed with another key, without a subject,
\* or issued for an address that is not in the table
NoCredentials == [scheme |-> "none"]
Tokens ==
    { create_access_token(<<"a", "@", "x.com">>),
      [create_access_token(<<"a", "@", "x.com">>) EXCEPT !.expired = TRUE],
      [create_access_token(<<"a", "@", "x.com">>) EXCEPT !.signed = FALSE],
      [sub |-> None, signed |-> TRUE, expired |-> FALSE],
      create_access_token(<<"b", "@", "x.com">>) }
Credentials == {NoCredentials} \cup {[scheme |-> "Bearer", token |-> t] : t \in Tokens}

\* HTTPBearer() without an Authorization header: 403 or 401 "Not
\* authenticated", depending on the FastAPI release
MissingCredentialsStatus == {403, 401}

\* credentials_exception
Unauthorized == [status |-> 401, detail |-> "Could not validate credentials", user |-> NoRow]

\* Mutant: the subject of the token is trusted without a look at the table
get_current_user_unchecked(credentials, table, missing) ==
    IF credentials = NoCredentials
    THEN [status |-> missing, detail |-> "Not authenticated", user |-> NoRow]
    ELSE LET payload == jwt_decode(credentials.token)
         IN  IF payload = None THEN Unauthorized
             ELSE [status |-> 200, detail |-> "none", user |-> NoRow]

\* Depends(bearer_scheme) and get_current_user: the identity, or the rejection
get_current_user(credentials, table, missing) ==
    IF credentials = NoCredentials
    THEN [status |-> missing, detail |-> "Not authenticated", user |-> NoRow]
    ELSE LET payload == jwt_decode(credentials.token)
         IN  IF payload = None THEN Unauthorized
             ELSE IF payload[1].sub = None THEN Unauthorized
             ELSE LET user == get_user_by_email(table, payload[1].sub[1])
                  IN  IF user = NoRow THEN Unauthorized
                      ELSE [status |-> 200, detail |-> "none", user |-> user]

\* Mutant: the address alone opens the account
authenticate_user_by_email(table, email, password) == get_user_by_email(table, email)

\* AuthService.authenticate_user: the user, or NoRow where the code returns None
authenticate_user(table, email, password) ==
    LET user == get_user_by_email(table, email)
    IN  IF user = NoRow THEN NoRow
        ELSE IF ~verify_password(password, user.hashed_password) THEN NoRow
        ELSE user

\* The UNIQUE index on users.email
email_taken(table, email) == \E i \in DOMAIN table : table[i].email = email

\* AuthService.create_user: the table after add and commit
create_user(table, user_create) ==
    Append(table, new_user(user_create.email, get_password_hash(user_create.password)))

\* What the gate can answer a request with, over everything a client can send
identity_gate(table) ==
    { [credentials |-> credentials,
       who         |-> get_current_user(credentials, table, missing)] :
        credentials \in Credentials, missing \in MissingCredentialsStatus }

-----------------------------------------------------------------------------
(* Request tasks *)

IdleReq ==
    [op |-> "idle", pc |-> "done", id |-> "none", form |-> NoForm,
     file |-> NoFile, db_content |-> NoRow, update_data |-> NoForm,
     storage_url |-> None, status |-> 0, detail |-> "none", body |-> None,
     log |-> <<>>, credentials |-> NoCredentials]

Init ==
    /\ records = [i \in Ids |-> NoRow]
    /\ blobs = {}
    /\ req = [p \in Procs |-> IdleReq]
    /\ nextId = 1
    /\ started = 0
    /\ loop = NoProc
    /\ deleted = {}
    /\ users = SeedUsers

\* A slot takes a new request when its previous one has been answered; the
\* slots are interchangeable, so a request goes to the first free one
CanReceive(p) ==
    /\ req[p].pc = "done"
    /\ started < MaxReq
    /\ \A q \in Procs : (q # p /\ req[q].pc = "done") => p = "p1"

\* create_content and update_content are coroutines of the one event loop:
\* between two awaits no other coroutine runs. The other handlers are plain
\* functions, which FastAPI runs on the thread pool.
LoopFree(p) == loop \in {NoProc, p}

\* The response of a request
Respond(r, status, detail, body) ==
    [IdleReq EXCEPT !.op = r.op, !.id = r.id, !.log = r.log,
                    !.credentials = r.credentials,
                    !.status = status, !.detail = detail, !.body = body]

Logged(r, event) == [r EXCEPT !.log = Append(@, event)]

\* The response when Depends(get_current_user) raises: the route function,
\* and with it the controller, never runs
Rejected(op, presented) ==
    Respond([IdleReq EXCEPT !.op = op, !.credentials = presented.credentials],
            presented.who.status, presented.who.detail, None)

\* ---- POST /content/ : ContentController.create_content ----

\* Mutant: every create draws the same identifier
uuid4_constant(drawn) == UUIDs[1]

\* uuid.uuid4(): an identifier that none of the draws before it gave, drawn
\* being one more than their number
uuid4(drawn) == UUIDs[drawn]

\* The route's Depends(get_current_user), then lines 47-56: validate the
\* file type and draw the content id
create_content_begin_with(p, forms) ==
    /\ CanReceive(p) /\ LoopFree(p)
    /\ \E presented \in identity_gate(users) :
         IF presented.who.status # 200
         THEN /\ req' = [req EXCEPT ![p] = Rejected("create", presented)]
              /\ UNCHANGED nextId
         ELSE \E content \in forms, file \in Files :
                LET r == [IdleReq EXCEPT !.op = "create", !.form = content, !.file = file,
                                         !.credentials = presented.credentials]
                IN  IF ~validate_file_type(file, content.content_type)
                    THEN /\ req' = [req EXCEPT ![p] =
                               Respond(r, 400, "Invalid file type", None)]
                         /\ UNCHANGED nextId
                    ELSE /\ nextId <= MaxId
                         /\ req' = [req EXCEPT ![p] =
                               [r EXCEPT !.pc = "upload", !.id = uuid4(nextId)]]
                         /\ nextId' = nextId + 1
    /\ started' = started + 1
    /\ UNCHANGED <<records, blobs, loop, deleted, users>>

\* POST /content/ with the forms above
create_content_begin(p) == create_content_begin_with(p, CreateForms)

\* Mutant: a failed upload is tried once more before the request gives up
create_content_upload_retried(p) ==
    /\ req[p].op = "create" /\ req[p].pc = "upload"
    /\ \E outcome \in S3Outcomes :
         LET r   == req[p]
             url == upload_file_result(r.file, r.form.content_type, r.id, outcome)
         IN  /\ blobs' = upload_file_store(blobs, r.file, r.form.content_type, r.id, outcome)
             /\ req' = [req EXCEPT ![p] =
                    IF url = None
                    THEN IF r.log # <<>>
                         THEN Respond(Logged(r, "upload_failed"), 500, upload_file_raises(outcome), None)
                         ELSE Logged(r, "upload_failed")
                    ELSE [Logged(r, "upload") EXCEPT !.pc = "insert", !.storage_url = url]]
    /\ UNCHANGED <<records, nextId, started, loop, deleted, users>>

\* lines 57-61: await StorageService.upload_file(file, content_type, content_id)
create_content_upload(p) ==
    /\ req[p].op = "create" /\ req[p].pc = "upload"
    /\ \E outcome \in S3Outcomes :
         LET r   == req[p]
             url == upload_file_result(r.file, r.form.content_type, r.id, outcome)
         IN  /\ blobs' = upload_file_store(blobs, r.file, r.form.content_type, r.id, outcome)
             /\ req' = [req EXCEPT ![p] =
                    IF url = None
                    THEN Respond(Logged(r, "upload_failed"), 500, upload_file_raises(outcome), None)
                    ELSE [Logged(r, "upload") EXCEPT !.pc = "insert", !.storage_url = url]]
    /\ UNCHANGED <<records, nextId, started, loop, deleted, users>>

\* Mutant: a create whose insert fails takes its object out of the store again
create_content_insert_compensated(p) ==
    /\ req[p].op = "create" /\ req[p].pc = "insert" /\ LoopFree(p)
    /\ \E outcome \in DbOutcomes :
         LET r   == req[p]
             row == new_row(r.form, r.id, r.storage_url[1])
         IN  IF outcome = "ok"
             THEN /\ records' = [records EXCEPT ![r.id] = row]
                  /\ req' = [req EXCEPT ![p] = Respond(Logged(r, "insert"), 200, "none", Some(row))]
                  /\ UNCHANGED blobs
             ELSE /\ req' = [req EXCEPT ![p] =
                        Respond(Logged(r, "insert_failed"), 500, "SQLAlchemyError", None)]
                  /\ blobs' = delete_file_store(blobs, r.storage_url[1], "ok")
                  /\ UNCHANGED records
    /\ UNCHANGED <<nextId, started, loop, deleted, users>>

\* lines 63-65: ContentService.create_content(db, content, content_id, storage_url)
create_content_insert(p) ==
    /\ req[p].op = "create" /\ req[p].pc = "insert" /\ LoopFree(p)
    /\ \E outcome \in DbOutcomes :
         LET r   == req[p]
             row == new_row(r.form, r.id, r.storage_url[1])
         IN  IF outcome = "ok"
             THEN /\ records' = [records EXCEPT ![r.id] = row]
                  /\ req' = [req EXCEPT ![p] = Respond(Logged(r, "insert"), 200, "none", Some(row))]
             ELSE /\ req' = [req EXCEPT ![p] =
                        Respond(Logged(r, "insert_failed"), 500, "SQLAlchemyError", None)]
                  /\ UNCHANGED records
    /\ UNCHANGED <<blobs, nextId, started, loop, deleted, users>>

\* ---- PUT /content/{id} : ContentController.update_content ----

\* Mutant: the old object is deleted as soon as the replacement file has
\* passed validation, before anything is uploaded
after_fetch_delete_first(file, db_content) ==
    IF file = NoFile THEN "commit"
    ELSE IF ~validate_file_type(file, db_content.content_type) THEN "reject"
         ELSE "delete_old"

\* Mutant: the storage branch is taken whether or not a file was sent
after_fetch_unguarded(file, db_content) ==
    IF file # NoFile /\ ~validate_file_type(file, db_content.content_type)
    THEN "reject" ELSE "upload"

\* Mutant: the replacement file is uploaded without a look at its type
after_fetch_unvalidated(file, db_content) ==
    IF file = NoFile THEN "commit" ELSE "upload"

\* lines 125-131: where the request goes once the record is fetched
after_fetch(file, db_content) ==
    IF file = NoFile THEN "commit"
    ELSE IF ~validate_file_type(file, db_content.content_type) THEN "reject"
         ELSE "upload"

\* The route's Depends(get_current_user), then lines 118-131: fetch the
\* record, build update_data, validate the new file
update_content_begin_with(p, forms) ==
    /\ CanReceive(p) /\ LoopFree(p)
    /\ \E presented \in identity_gate(users) :
         IF presented.who.status # 200
         THEN /\ req' = [req EXCEPT ![p] = Rejected("update", presented)]
              /\ UNCHANGED loop
         ELSE \E id \in Ids, form \in forms, file \in Files \cup {NoFile} :
                LET db_content == records[id]
                    r == [IdleReq EXCEPT !.op = "update", !.id = id, !.form = form,
                                         !.file = file, !.db_content = db_content,
                                         !.credentials = presented.credentials]
                IN  IF db_content = NoRow
                    THEN /\ req' = [req EXCEPT ![p] =
                               Respond(r, 404, "Content not found", None)]
                         /\ UNCHANGED loop
                    ELSE LET u    == [r EXCEPT !.update_data = content_update_dict(form)]
                             next == after_fetch(file, db_content)
                         IN  IF next = "reject"
                             THEN /\ req' = [req EXCEPT ![p] =
                                        Respond(u, 400, "Invalid file type", None)]
                                  /\ UNCHANGED loop
                             ELSE /\ req' = [req EXCEPT ![p] = [u EXCEPT !.pc = next]]
                                  /\ loop' = IF next = "commit" THEN p ELSE loop
    /\ started' = started + 1
    /\ UNCHANGED <<records, blobs, nextId, deleted, users>>

\* PUT /content/{id} with the forms above
update_content_begin(p) == update_content_begin_with(p, UpdateForms)

\* Mutant: the old object is deleted after every upload, whether or not the
\* URL has changed
update_content_upload_then_delete(p) ==
    /\ req[p].op = "update" /\ req[p].pc = "upload"
    /\ \E outcome \in S3Outcomes :
         LET r   == req[p]
             url == upload_file_result(r.file, r.db_content.content_type, r.db_content.id, outcome)
         IN  /\ blobs' = upload_file_store(blobs, r.file, r.db_content.content_type,
                                           r.db_content.id, outcome)
             /\ req' = [req EXCEPT ![p] =
                    IF url = None
                    THEN Respond(Logged(r, "upload_failed"), 500, upload_file_raises(outcome), None)
                    ELSE [Logged(r, "upload") EXCEPT
                             !.pc = "delete_old",
                             !.storage_url = url,
                             !.update_data = with_storage_url(r.update_data, url[1])]]
    /\ UNCHANGED <<records, nextId, started, loop, deleted, users>>

\* Mutant: the S3UploadException of the upload is logged and the update goes
\* on to write the metadata
update_content_upload_swallowed(p) ==
    /\ req[p].op = "update" /\ req[p].pc = "upload"
    /\ \E outcome \in S3Outcomes :
         LET r   == req[p]
             url == upload_file_result(r.file, r.db_content.content_type, r.db_content.id, outcome)
         IN  /\ blobs' = upload_file_store(blobs, r.file, r.db_content.content_type,
                                           r.db_content.id, outcome)
             /\ req' = [req EXCEPT ![p] =
                    IF url = None
                    THEN [Logged(r, "upload_failed") EXCEPT !.pc = "commit"]
                    ELSE [Logged(r, "upload") EXCEPT
                             !.pc = IF url[1] # r.db_content.storage_url
                                    THEN "delete_old" ELSE "commit",
                             !.storage_url = url,
                             !.update_data = with_storage_url(r.update_data, url[1])]]
    /\ UNCHANGED <<records, nextId, started, loop, deleted, users>>

\* lines 132-136, 141-144: await upload_file(file, db_content.content_type, db_content.id)
update_content_upload(p) ==
    /\ req[p].op = "update" /\ req[p].pc = "upload"
    /\ \E outcome \in S3Outcomes :
         LET r   == req[p]
             url == upload_file_result(r.file, r.db_content.content_type, r.db_content.id, outcome)
         IN  /\ blobs' = upload_file_store(blobs, r.file, r.db_content.content_type,
                                           r.db_content.id, outcome)
             /\ req' = [req EXCEPT ![p] =
                    IF url = None
                    THEN Respond(Logged(r, "upload_failed"), 500, upload_file_raises(outcome), None)
                    ELSE [Logged(r, "upload") EXCEPT
                             !.pc = IF url[1] # r.db_content.storage_url
                                    THEN "delete_old" ELSE "commit",
                             !.storage_url = url,
                             !.update_data = with_storage_url(r.update_data, url[1])]]
    /\ UNCHANGED <<records, nextId, started, loop, deleted, users>>

\* Mutant: the failure to delete the old object ends the update, as the
\* failure of the upload does
update_content_delete_old_surfaced(p) ==
    /\ req[p].op = "update" /\ req[p].pc = "delete_old" /\ LoopFree(p)
    /\ \E outcome \in S3Outcomes :
         LET r == req[p]
         IN  /\ blobs' = delete_file_store(blobs, r.db_content.storage_url, outcome)
             /\ req' = [req EXCEPT ![p] =
                    IF outcome = "ok"
                    THEN [Logged(r, "delete_old") EXCEPT !.pc = "commit"]
                    ELSE Respond(Logged(r, "delete_old_failed"), 500, "S3UploadException", None)]
             /\ loop' = IF outcome = "ok" THEN p ELSE NoProc
    /\ UNCHANGED <<records, nextId, started, deleted, users>>

\* lines 137-140: delete the old object; whatever it raises is logged and dropped
update_content_delete_old(p) ==
    /\ req[p].op = "update" /\ req[p].pc = "delete_old" /\ LoopFree(p)
    /\ \E outcome \in S3Outcomes :
         LET r == req[p]
         IN  /\ blobs' = delete_file_store(blobs, r.db_content.storage_url, outcome)
             /\ req' = [req EXCEPT ![p] =
                    [Logged(r, IF outcome = "ok" THEN "delete_old" ELSE "delete_old_failed")
                        EXCEPT !.pc = "commit"]]
    /\ loop' = p
    /\ UNCHANGED <<records, nextId, started, deleted, users>>

\* lines 146-148: ContentService.update_content(db, db_content, update_data)
update_content_commit(p) ==
    /\ req[p].op = "update" /\ req[p].pc = "commit" /\ LoopFree(p)
    /\ \E outcome \in DbOutcomes :
         LET r == req[p]
         IN  IF update_commits(records, r.db_content, r.update_data, outcome)
             THEN LET row == update_row(records, r.db_content, r.update_data)
                  IN  /\ records' = [records EXCEPT ![r.id] = row]
                      /\ req' = [req EXCEPT ![p] =
                             Respond(Logged(r, "update"), 200, "none", Some(row))]
             ELSE /\ req' = [req EXCEPT ![p] =
                        Respond(Logged(r, "update_failed"), 500, "SQLAlchemyError", None)]
                  /\ UNCHANGED records
    /\ loop' = NoProc
    /\ UNCHANGED <<blobs, nextId, started, deleted, users>>

\* ---- DELETE /content/{id} : ContentController.delete_content ----

\* Mutant: a delete is not taken up while an update of the same id is under way
delete_content_begin_serialized(p) ==
    /\ CanReceive(p)
    /\ \E presented \in identity_gate(users) :
         IF presented.who.status # 200
         THEN req' = [req EXCEPT ![p] = Rejected("delete", presented)]
         ELSE \E id \in Ids :
                LET db_content == records[id]
                    r == [IdleReq EXCEPT !.op = "delete", !.id = id,
                                         !.db_content = db_content,
                                         !.credentials = presented.credentials]
                IN  /\ \A q \in Procs : ~(req[q].op = "update" /\ req[q].pc # "done" /\ req[q].id = id)
                    /\ req' = [req EXCEPT ![p] =
                          IF db_content = NoRow
                          THEN Respond(r, 404, "Content not found", None)
                          ELSE [r EXCEPT !.pc = "delete_file"]]
    /\ started' = started + 1
    /\ UNCHANGED <<records, blobs, nextId, loop, deleted, users>>

\* The route's Depends(get_current_user), then lines 165-169: fetch the record
delete_content_begin(p) ==
    /\ CanReceive(p)
    /\ \E presented \in identity_gate(users) :
         IF presented.who.status # 200
         THEN req' = [req EXCEPT ![p] = Rejected("delete", presented)]
         ELSE \E id \in Ids :
                LET db_content == records[id]
                    r == [IdleReq EXCEPT !.op = "delete", !.id = id,
                                         !.db_content = db_content,
                                         !.credentials = presented.credentials]
                IN  req' = [req EXCEPT ![p] =
                        IF db_content = NoRow
                        THEN Respond(r, 404, "Content not found", None)
                        ELSE [r EXCEPT !.pc = "delete_file"]]
    /\ started' = started + 1
    /\ UNCHANGED <<records, blobs, nextId, loop, deleted, users>>

\* Mutant: the failure of delete_file is logged and dropped, as in the update
delete_content_delete_file_swallowed(p) ==
    /\ req[p].op = "delete" /\ req[p].pc = "delete_file"
    /\ \E outcome \in S3Outcomes :
         LET r == req[p]
         IN  /\ blobs' = delete_file_store(blobs, r.db_content.storage_url, outcome)
             /\ req' = [req EXCEPT ![p] =
                    [Logged(r, IF outcome = "ok" THEN "delete_file" ELSE "delete_file_failed")
                        EXCEPT !.pc = "delete_row"]]
    /\ UNCHANGED <<records, nextId, started, loop, deleted, users>>

\* line 171: StorageService.delete_file(db_content.storage_url); its
\* S3UploadException is not caught by the controller
delete_content_delete_file(p) ==
    /\ req[p].op = "delete" /\ req[p].pc = "delete_file"
    /\ \E outcome \in S3Outcomes :
         LET r == req[p]
         IN  /\ blobs' = delete_file_store(blobs, r.db_content.storage_url, outcome)
             /\ req' = [req EXCEPT ![p] =
                    IF outcome = "ok"
                    THEN [Logged(r, "delete_file") EXCEPT !.pc = "delete_row"]
                    ELSE Respond(Logged(r, "delete_file_failed"), 500, "S3UploadException", None)]
    /\ UNCHANGED <<records, nextId, started, loop, deleted, users>>

\* lines 172-174: ContentService.delete_content(db, db_content); a DELETE
\* that matches no row is only warned about
delete_content_delete_row(p) ==
    /\ req[p].op = "delete" /\ req[p].pc = "delete_row"
    /\ \E outcome \in DbOutcomes :
         LET r == req[p]
         IN  IF outcome = "ok"
             THEN /\ records' = delete_content_row(records, r.db_content)
                  /\ req' = [req EXCEPT ![p] =
                         Respond(Logged(r, "delete_row"), 200, "Content deleted successfully", None)]
                  /\ deleted' = deleted \cup {r.id}
             ELSE /\ req' = [req EXCEPT ![p] =
                        Respond(Logged(r, "delete_row_failed"), 500, "SQLAlchemyError", None)]
                  /\ UNCHANGED <<records, deleted>>
    /\ UNCHANGED <<blobs, nextId, started, loop, users>>

\* ---- GET /content/{id}, GET /content/ ----

\* get_content if a lookup that found the record without its object removed
\* the record before answering
get_content_pruning(p) ==
    /\ CanReceive(p)
    /\ \E id \in Ids :
         LET content == records[id]
             r == [IdleReq EXCEPT !.op = "get", !.id = id, !.db_content = content]
             orphan == content # NoRow /\ url_key(content.storage_url) \notin blobs
         IN  /\ req' = [req EXCEPT ![p] =
                   IF content = NoRow \/ orphan
                   THEN Respond(r, 404, "Content not found", None)
                   ELSE Respond(r, 200, "none", Some(content))]
             /\ records' = IF orphan THEN [records EXCEPT ![id] = NoRow] ELSE records
    /\ started' = started + 1
    /\ UNCHANGED <<blobs, nextId, loop, deleted, users>>

get_content(p) ==
    /\ CanReceive(p)
    /\ \E id \in Ids :
         LET content == records[id]
             r == [IdleReq EXCEPT !.op = "get", !.id = id, !.db_content = content]
         IN  req' = [req EXCEPT ![p] =
                 IF content = NoRow
                 THEN Respond(r, 404, "Content not found", None)
                 ELSE Respond(r, 200, "none", Some(content))]
    /\ started' = started + 1
    /\ UNCHANGED <<records, blobs, nextId, loop, deleted, users>>

ListSkips == {0, 1}
ListLimits == {1, 100}

list_contents(p) ==
    /\ CanReceive(p)
    /\ \E skip \in ListSkips, limit \in ListLimits :
         LET r == [IdleReq EXCEPT !.op = "list", !.form = [skip |-> skip, limit |-> limit]]
         IN  req' = [req EXCEPT ![p] =
                 [Respond(r, 200, "none", get_contents(records, skip, limit))
                    EXCEPT !.form = r.form]]
    /\ started' = started + 1
    /\ UNCHANGED <<records, blobs, nextId, loop, deleted, users>>

\* ---- GET /content/{id}/stream : ContentController.stream_content ----

\* Mutant: the URL is signed before the record is looked at, so a missing
\* record shows as a signing failure
stream_content_presign_first(p) ==
    /\ CanReceive(p)
    /\ \E id \in Ids, outcome \in S3Outcomes :
         LET db_content == records[id]
             r == [IdleReq EXCEPT !.op = "stream", !.id = id]
         IN  req' = [req EXCEPT ![p] =
                 IF db_content = NoRow \/ outcome # "ok"
                 THEN Respond(Logged(r, "presign_none"), 500,
                              "Unable to generate presigned URL for streaming.", None)
                 ELSE Respond(Logged(r, "presign"), 307, "none",
                              Some(redirect_location(
                                  generate_presigned_url(db_content.storage_url, outcome)[1])))]
    /\ started' = started + 1
    /\ UNCHANGED <<records, blobs, nextId, loop, deleted, users>>

\* Mutant: the redirect goes to the stored URL, not to the signed one
stream_content_unsigned(p) ==
    /\ CanReceive(p)
    /\ \E id \in Ids, outcome \in S3Outcomes :
         LET db_content == records[id]
             r == [IdleReq EXCEPT !.op = "stream", !.id = id]
             presigned_url == generate_presigned_url(db_content.storage_url, outcome)
         IN  req' = [req EXCEPT ![p] =
                 IF db_content = NoRow
                 THEN Respond(r, 404, "Content not found", None)
                 ELSE IF generate_presigned_url_raises(outcome) # "none"
                      THEN Respond(Logged(r, "presign_raised"), 500,
                                   generate_presigned_url_raises(outcome), None)
                      ELSE IF presigned_url = None
                           THEN Respond(Logged(r, "presign_none"), 500,
                                        "Unable to generate presigned URL for streaming.", None)
                           ELSE Respond(Logged(r, "presign"), 307, "none",
                                        Some([path      |-> db_content.storage_url,
                                              ExpiresIn |-> 0]))]
    /\ started' = started + 1
    /\ UNCHANGED <<records, blobs, nextId, loop, deleted, users>>

\* Mutant: a URL that could not be signed is reported as a missing record
stream_content_none_as_not_found(p) ==
    /\ CanReceive(p)
    /\ \E id \in Ids, outcome \in S3Outcomes :
         LET db_content == records[id]
             r == [IdleReq EXCEPT !.op = "stream", !.id = id]
             presigned_url == generate_presigned_url(db_content.storage_url, outcome)
         IN  req' = [req EXCEPT ![p] =
                 IF db_content = NoRow
                 THEN Respond(r, 404, "Content not found", None)
                 ELSE IF generate_presigned_url_raises(outcome) # "none"
                      THEN Respond(Logged(r, "presign_raised"), 500,
                                   generate_presigned_url_raises(outcome), None)
                      ELSE IF presigned_url = None
                           THEN Respond(Logged(r, "presign_none"), 404, "Content not found", None)
                           ELSE Respond(Logged(r, "presign"), 307, "none",
                                        Some(redirect_location(presigned_url[1])))]
    /\ started' = started + 1
    /\ UNCHANGED <<records, blobs, nextId, loop, deleted, users>>

\* lines 191-201 and the route's RedirectResponse(url=presigned_url): fetch
\* the record and sign a URL for it; signing reads nothing but the record
stream_content(p) ==
    /\ CanReceive(p)
    /\ \E id \in Ids, outcome \in S3Outcomes :
         LET db_content == records[id]
             r == [IdleReq EXCEPT !.op = "stream", !.id = id]
             presigned_url == generate_presigned_url(db_content.storage_url, outcome)
         IN  req' = [req EXCEPT ![p] =
                 IF db_content = NoRow
                 THEN Respond(r, 404, "Content not found", None)
                 ELSE IF generate_presigned_url_raises(outcome) # "none"
                      THEN Respond(Logged(r, "presign_raised"), 500,
                                   generate_presigned_url_raises(outcome), None)
                      ELSE IF presigned_url = None
                           THEN Respond(Logged(r, "presign_none"), 500,
                                        "Unable to generate presigned URL for streaming.", None)
                           ELSE Respond(Logged(r, "presign"), 307, "none",
                                        Some(redirect_location(presigned_url[1])))]
    /\ started' = started + 1
    /\ UNCHANGED <<records, blobs, nextId, loop, deleted, users>>

-----------------------------------------------------------------------------

Next ==
    \E p \in Procs :
        \/ create_content_begin(p)
        \/ create_content_upload(p)
        \/ create_content_insert(p)
        \/ update_content_begin(p)
        \/ update_content_upload(p)
        \/ update_content_delete_old(p)
        \/ update_content_commit(p)
        \/ delete_content_begin(p)
        \/ delete_content_delete_file(p)
        \/ delete_content_delete_row(p)
        \/ get_content(p)
        \/ list_contents(p)
        \/ stream_content(p)

Spec == Init /\ [][Next]_vars

-----------------------------------------------------------------------------
(* POST /auth/register and POST /auth/token *)

\* The state with nobody registered yet
AuthInit ==
    /\ records = [i \in Ids |-> NoRow]
    /\ blobs = {}
    /\ req = [p \in Procs |-> IdleReq]
    /\ nextId = 1
    /\ started = 0
    /\ loop = NoProc
    /\ deleted = {}
    /\ users = <<>>

\* UserCreate / UserLogin as the route receives them
UserForm(email, password) == [email |-> email_str(email), password |-> password]

\* Mutant: the address is not looked up before the insert
register_user_begin_unchecked(p) ==
    /\ CanReceive(p)
    /\ \E email \in Emails, password \in Passwords :
         LET r == [IdleReq EXCEPT !.op = "register", !.form = UserForm(email, password)]
         IN  req' = [req EXCEPT ![p] = [r EXCEPT !.pc = "create_user"]]
    /\ started' = started + 1
    /\ UNCHANGED <<records, blobs, nextId, loop, deleted, users>>

\* auth_routes.py lines 28-33: look the address up, 400 when it is taken
register_user_begin(p) ==
    /\ CanReceive(p)
    /\ \E email \in Emails, password \in Passwords :
         LET r == [IdleReq EXCEPT !.op = "register", !.form = UserForm(email, password)]
             db_user == get_user_by_email(users, r.form.email)
         IN  req' = [req EXCEPT ![p] =
                 IF db_user # NoRow
                 THEN [Respond(r, 400, "Email already registered", None) EXCEPT !.form = r.form]
                 ELSE [r EXCEPT !.pc = "create_user"]]
    /\ started' = started + 1
    /\ UNCHANGED <<records, blobs, nextId, loop, deleted, users>>

\* auth_routes.py line 34: AuthService.create_user; the commit fails when the
\* database does or when the address has been taken in the meantime
register_user_create(p) ==
    /\ req[p].op = "register" /\ req[p].pc = "create_user"
    /\ \E outcome \in DbOutcomes :
         LET r == req[p]
         IN  IF outcome = "ok" /\ ~email_taken(users, r.form.email)
             THEN /\ users' = create_user(users, r.form)
                  /\ req' = [req EXCEPT ![p] =
                         [Respond(Logged(r, "create_user"), 200, "none",
                                  Some([email |-> r.form.email, is_active |-> TRUE]))
                            EXCEPT !.form = r.form]]
             ELSE /\ req' = [req EXCEPT ![p] =
                         [Respond(Logged(r, "create_user_failed"), 500,
                                  IF outcome = "ok" THEN "IntegrityError" ELSE "SQLAlchemyError",
                                  None)
                            EXCEPT !.form = r.form]]
                  /\ UNCHANGED users
    /\ UNCHANGED <<records, blobs, nextId, started, loop, deleted>>

\* auth_routes.py lines 47-55: authenticate, then issue the token
login_for_access_token(p) ==
    /\ CanReceive(p)
    /\ \E email \in Emails, password \in Passwords :
         LET r    == [IdleReq EXCEPT !.op = "login", !.form = UserForm(email, password)]
             user == authenticate_user(users, r.form.email, r.form.password)
         IN  req' = [req EXCEPT ![p] =
                 [(IF user = NoRow
                   THEN Respond(r, 401, "Incorrect email or password", None)
                   ELSE Respond(r, 200, "none",
                                Some([access_token |-> create_access_token(user.email),
                                      token_type   |-> "bearer"])))
                    EXCEPT !.form = r.form]]
    /\ started' = started + 1
    /\ UNCHANGED <<records, blobs, nextId, loop, deleted, users>>

AuthNext ==
    \E p \in Procs :
        \/ register_user_begin(p)
        \/ register_user_create(p)
        \/ login_for_access_token(p)

AuthSpec == AuthInit /\ [][AuthNext]_vars

-----------------------------------------------------------------------------
(* ContentService.validate_file_type on its own *)

\* What a caller can pass as content_type, and as the MIME type of the file
DeclaredTypes == {"video", "audio", "image"}
MimeTypes ==
    {"video/mp4", "video/mpeg", "audio/mpeg", "audio/mp3", "audio/wav",
     "video/webm", "audio/ogg", "audio/mp4", "image/png", "VIDEO/MP4",
     "application/octet-stream"}

\* One call of validate_file_type, its arguments and its result kept in slot p
validate_file_type_call(p) ==
    /\ req[p].pc = "done" /\ started < MaxReq
    /\ \E content_type \in DeclaredTypes, mime \in MimeTypes :
         LET file == [filename |-> <<"f">>, content_type |-> mime]
             r    == [IdleReq EXCEPT !.op = "validate", !.file = file]
         IN  req' = [req EXCEPT ![p] =
                 [Respond(r, 0, "none", Some(validate_file_type(file, content_type)))
                    EXCEPT !.file = file, !.form = [content_type |-> content_type]]]
    /\ started' = started + 1
    /\ UNCHANGED <<records, blobs, nextId, loop, deleted, users>>

\* Forms with a duration below zero next to the others
SignedCreateForms == CreateForms \cup {[content EXCEPT !.duration = -1] : content \in CreateForms}
SignedUpdateForms ==
    UpdateForms \cup
    { [title |-> Some("t2"), description |-> Some("d2"), duration |-> Some(-20), thumbnail_url |-> None] }

\* Creates and updates alone, with those forms
FormNext ==
    \E p \in Procs :
        \/ create_content_begin_with(p, SignedCreateForms)
        \/ create_content_upload(p)
        \/ create_content_insert(p)
        \/ update_content_begin_with(p, SignedUpdateForms)
        \/ update_content_upload(p)
        \/ update_content_delete_old(p)
        \/ update_content_commit(p)

FormSpec == Init /\ [][FormNext]_vars

ValidateNext == \E p \in Procs : validate_file_type_call(p)

ValidateSpec == Init /\ [][ValidateNext]_vars

-----------------------------------------------------------------------------
(* Vocabulary of the properties *)

Range(f) == {f[i] : i \in DOMAIN f}

\* The object a storage URL resolves to is in the store
BlobPresent(url) == url_key(url) \in blobs

\* The key the object of a storage URL was stored under
StoredKey(url) == SubSeq(url, 4, Len(url))

\* The URL parses back to the key its object was stored under
RoundTrips(url) == url_key(url) = StoredKey(url)

\* No request is in flight
Quiescent == \A p \in Procs : req[p].pc = "done"

\* This step is a step of the request in slot p
StepOf(p) == req'[p] # req[p]

\* This step answers a request of kind op in slot p at the identity gate
Turned(p, op) ==
    /\ req[p].pc = "done" /\ StepOf(p)
    /\ req'[p].op = op /\ req'[p].status \in {401, 403}

\* This step is the first step of a request of kind op in slot p that the
\* identity gate, where the route has one, has let through
Begins(p, op) ==
    /\ req[p].pc = "done" /\ StepOf(p)
    /\ req'[p].op = op /\ req'[p].status \notin {401, 403}

\* Slot p holds a request of kind op that is at position pc
At(p, op, pc) == req[p].op = op /\ req[p].pc = pc

\* Slot p holds the answer to a request of kind op
Answered(p, op) == req[p].op = op /\ req[p].pc = "done"

-----------------------------------------------------------------------------
(* C1 *)

\* C1 (as claimed): whenever no request is in flight, every existing record
\* whose storage_url parses back to its key references an object that is in
\* the store. The code breaks it: a request that removed the object and then
\* failed to write the database leaves the record pointing at nothing.
C1_NoDanglingStorageUrl ==
    Quiescent =>
        \A i \in Ids :
            (records[i] # NoRow /\ RoundTrips(records[i].storage_url))
                => BlobPresent(records[i].storage_url)

-----------------------------------------------------------------------------
(* C2 *)

\* Slot q holds an unfinished create, update-with-file or delete of id i
MutationInFlight(q, i) ==
    /\ req[q].pc # "done"
    /\ req[q].id = i
    /\ \/ req[q].op \in {"create", "delete"}
       \/ req[q].op = "update" /\ req[q].file # NoFile

\* C2 (as claimed): a GET of a record answered while a create, an
\* update-with-file or a delete of the same id is in flight returns a record
\* whose storage_url is set and resolves to an object that is in the store at
\* the time of the read. The code breaks it between the removal of the object
\* and the database write of a delete or an update.
C2_ReadsSeeNoIntermediateState ==
    [][\A p \in Procs :
        (/\ Begins(p, "get")
         /\ req'[p].status = 200
         /\ \E q \in Procs : q # p /\ MutationInFlight(q, req'[p].id))
        => LET content == req'[p].body[1]
           IN  /\ content.storage_url # None
               /\ RoundTrips(content.storage_url) => BlobPresent(content.storage_url)
      ]_vars

-----------------------------------------------------------------------------
(* C3 *)

\* C3: a row is inserted only by a create whose upload for the same id has
\* put the object in the store, with the URL of that object; a create whose
\* upload failed is answered 500 with the upload error and its id has no row.
C3_InsertOnlyAfterUpload ==
    /\ [](\A p \in Procs :
            (Answered(p, "create") /\ "upload_failed" \in Range(req[p].log))
                => /\ req[p].status = 500
                   /\ req[p].detail = "S3UploadException"
                   /\ "insert" \notin Range(req[p].log)
                   /\ records[req[p].id] = NoRow)
    /\ [][\A i \in Ids :
            (records[i] = NoRow /\ records'[i] # NoRow)
                => \E p \in Procs :
                     /\ At(p, "create", "insert") /\ req[p].id = i
                     /\ unique_filename(req[p].file, req[p].form.content_type, i) \in blobs
                     /\ records'[i].storage_url =
                            object_url(unique_filename(req[p].file, req[p].form.content_type, i))
       ]_vars

C3_Witness ==
    \E p \in Procs :
        /\ Answered(p, "create") /\ req[p].log = <<"upload_failed">>
        /\ req[p].status = 500
        /\ \E i \in Ids : records[i] # NoRow

-----------------------------------------------------------------------------
(* C4 *)

\* The allow-list of file types per content type
Allowed(content_type, mime) ==
    \/ content_type = "video" /\ mime \in {"video/mp4", "video/mpeg"}
    \/ content_type = "audio" /\ mime \in {"audio/mpeg", "audio/mp3", "audio/wav"}

\* C4: a create whose file type is not allowed for the declared content_type
\* never gets past validation: it is answered 400 in its first step, which
\* changes neither the records nor the objects, and every create that goes on
\* to upload has an allowed file type.
C4_InvalidTypeRejected ==
    /\ [](\A p \in Procs :
            (req[p].op = "create" /\ req[p].pc # "done")
                => Allowed(req[p].form.content_type, req[p].file.content_type))
    /\ [][\A p \in Procs :
            (Begins(p, "create") /\ req'[p].pc = "done")
                => /\ req'[p].status = 400
                   /\ req'[p].detail = "Invalid file type"
                   /\ req'[p].log = <<>>
                   /\ UNCHANGED <<records, blobs, nextId>>
       ]_vars

C4_Witness ==
    \E p \in Procs :
        /\ Answered(p, "create") /\ req[p].status = 400
        /\ \E i \in Ids : records[i] # NoRow

-----------------------------------------------------------------------------
(* C5 *)

-----------------------------------------------------------------------------
(* C6 *)

\* C6 (as claimed): the step that answers a delete with 200 leaves neither
\* the record nor the object that was stored for it. The code breaks it: the
\* key it deletes is parsed from the URL and is not always the stored key.
C6_DeleteRemovesRecordAndBlob ==
    [][\A p \in Procs :
        (At(p, "delete", "delete_row") /\ StepOf(p) /\ req'[p].status = 200)
            => /\ records'[req[p].id] = NoRow
               /\ StoredKey(req[p].db_content.storage_url) \notin blobs'
      ]_vars

-----------------------------------------------------------------------------
(* C7 *)

\* C7: a delete of an existing id whose two steps succeed is answered 200;
\* from then on the id has no row, and every delete or get of that id that
\* starts afterwards is answered 404 in its first step.
C7_DeleteThenNotFound ==
    /\ [](\A p \in Procs :
            (Answered(p, "delete") /\ req[p].log = <<"delete_file", "delete_row">>)
                => req[p].status = 200 /\ req[p].id \in deleted)
    /\ [](\A i \in deleted : records[i] = NoRow)
    /\ [][\A p \in Procs :
            ((Begins(p, "delete") \/ Begins(p, "get")) /\ req'[p].id \in deleted)
                => req'[p].status = 404 /\ req'[p].pc = "done"
       ]_vars

C7_Witness ==
    \E p, q \in Procs :
        /\ Answered(p, "delete") /\ req[p].status = 404 /\ req[p].id \in deleted
        /\ (q = p \/ (Answered(q, "get") /\ req[q].status = 404 /\ req[q].id \in deleted))

-----------------------------------------------------------------------------
(* C8 *)

UpdateFields == {"title", "description", "duration", "thumbnail_url"}

\* C8 (as claimed): the step that answers an update with 200 leaves every
\* field the request did not carry with the value it had. The code breaks
\* it: a field left out of the form is written as null.
C8_AbsentFieldsKept ==
    [][\A p \in Procs :
        (At(p, "update", "commit") /\ StepOf(p) /\ req'[p].status = 200)
            => \A k \in UpdateFields :
                 req[p].form[k] = None
                    => Col(records'[req[p].id], k) = Col(records[req[p].id], k)
      ]_vars

-----------------------------------------------------------------------------
(* C9 *)

\* C9: no step of an update without a file touches the object store or the
\* record's storage_url: the objects are unchanged, the row keeps its
\* storage_url, update_data never names storage_url, and the only thing the
\* request does besides fetching is the database update.
C9_UpdateWithoutFileNoStorage ==
    /\ [](\A p \in Procs :
            (req[p].op = "update" /\ req[p].pc # "done" /\ req[p].file = NoFile)
                => /\ req[p].pc = "commit"
                   /\ req[p].log = <<>>
                   /\ "storage_url" \notin DOMAIN req[p].update_data)
    /\ [][\A p \in Procs :
            (req[p].op = "update" /\ req[p].pc # "done" /\ req[p].file = NoFile /\ StepOf(p))
                => /\ UNCHANGED blobs
                   /\ req'[p].log \in {<<"update">>, <<"update_failed">>}
                   /\ records'[req[p].id] # NoRow
                        => records'[req[p].id].storage_url = records[req[p].id].storage_url
       ]_vars
    /\ [][\A p \in Procs : Begins(p, "update") => UNCHANGED <<records, blobs>>]_vars

C9_Witness ==
    \E p \in Procs :
        /\ Answered(p, "update") /\ req[p].status = 200 /\ req[p].log = <<"update">>
        /\ records[req[p].id] # NoRow
        /\ records[req[p].id].title = "t2"
        /\ BlobPresent(records[req[p].id].storage_url)

-----------------------------------------------------------------------------
(* C10 *)

\* C10: when the upload of the replacement file fails, that step answers the
\* update with the upload error (500); neither it nor the steps of the
\* request before it change any record or any object.
C10_FailedReplacementUploadAborts ==
    /\ [][\A p \in Procs :
            (At(p, "update", "upload") /\ StepOf(p) /\ req'[p].pc = "done")
                => /\ req'[p].status = 500
                   /\ req'[p].detail = "S3UploadException"
                   /\ req'[p].log = <<"upload_failed">>
                   /\ UNCHANGED <<records, blobs>>
       ]_vars
    /\ [][\A p \in Procs : Begins(p, "update") => UNCHANGED <<records, blobs>>]_vars
    /\ [](\A p \in Procs : At(p, "update", "upload") => req[p].log = <<>>)
    /\ [](\A p \in Procs :
            (req[p].op = "update" /\ "upload_failed" \in Range(req[p].log))
                => req[p].pc = "done" /\ req[p].status = 500)

C10_Witness ==
    \E p \in Procs :
        /\ Answered(p, "update") /\ req[p].log = <<"upload_failed">>
        /\ req[p].status = 500
        /\ records[req[p].id] # NoRow
        /\ BlobPresent(records[req[p].id].storage_url)

-----------------------------------------------------------------------------
(* C11 *)

\* C11: in an update with a replacement file, the step that tries to delete
\* the old object always hands over to the database write, whether or not the
\* deletion failed, and changes no record. When the deletion failed, the
\* write that follows either persists the new storage_url and every field
\* the form carries and answers 200 with the refreshed record, or fails on
\* the database's own account (500, no record changed); the storage error
\* never reaches the response.
C11_OldBlobDeletionFailureSwallowed ==
    /\ [][\A p \in Procs :
            (At(p, "update", "delete_old") /\ StepOf(p))
                => /\ req'[p].pc = "commit"
                   /\ req'[p].update_data = req[p].update_data
                   /\ req'[p].status = 0
                   /\ UNCHANGED records
       ]_vars
    /\ [][\A p \in Procs :
            (/\ At(p, "update", "commit") /\ StepOf(p)
             /\ "delete_old_failed" \in Range(req[p].log))
                => \/ /\ req'[p].status = 200
                      /\ records'[req[p].id].storage_url = req[p].storage_url[1]
                      /\ records'[req[p].id].storage_url # req[p].db_content.storage_url
                      /\ \A k \in UpdateFields :
                            req[p].form[k] # None
                                => Col(records'[req[p].id], k) = req[p].form[k]
                      /\ req'[p].body = Some(records'[req[p].id])
                   \/ /\ req'[p].status = 500
                      /\ req'[p].detail = "SQLAlchemyError"
                      /\ UNCHANGED records
       ]_vars

C11_Witness ==
    \E p \in Procs :
        /\ Answered(p, "update") /\ req[p].status = 200
        /\ req[p].log = <<"upload", "delete_old_failed", "update">>
        /\ records[req[p].id] # NoRow
        /\ records[req[p].id].title = "t2"
        /\ records[req[p].id].storage_url = req[p].body[1].storage_url
        /\ Cardinality(blobs) = 2

-----------------------------------------------------------------------------
(* C12 *)

\* C12 (as claimed): the step that answers an update with a replacement file
\* with 200 leaves the record with a storage_url other than the one the
\* update found, and the object that was stored for the old one is no longer
\* in the store. The code breaks it: the key it deletes is parsed from the
\* old URL and is not always the stored key, a replacement with the same
\* extension is written over the same key, and a failed deletion is dropped.
C12_ReplacementChangesUrlAndRemovesPriorBlob ==
    [][\A p \in Procs :
        (/\ At(p, "update", "commit") /\ StepOf(p)
         /\ req[p].file # NoFile /\ req'[p].status = 200)
            => /\ records'[req[p].id].storage_url # req[p].db_content.storage_url
               /\ StoredKey(req[p].db_content.storage_url) \notin blobs'
      ]_vars

-----------------------------------------------------------------------------
(* C13 *)

\* C13 (as claimed): whenever no request is in flight, every object in the
\* store is the one stored for the storage_url of an existing record. The
\* code breaks it: a create whose insert fails, an update whose write fails
\* or whose old object could not be deleted, and a delete of a record whose
\* URL does not parse back to its key all leave an object nobody references.
C13_NoOrphanedBlob ==
    Quiescent =>
        \A key \in blobs :
            \E i \in Ids :
                /\ records[i] # NoRow
                /\ StoredKey(records[i].storage_url) = key

-----------------------------------------------------------------------------
(* C14 *)

\* C14: an update whose replacement file is not of a type allowed for the
\* content_type of the record it found never gets past validation: it is
\* answered 400 in its first step, before any upload, deletion or database
\* write, and that step changes neither the records nor the objects; every
\* update that goes on with a file has a file of an allowed type.
C14_InvalidReplacementRejected ==
    /\ [](\A p \in Procs :
            (req[p].op = "update" /\ req[p].pc # "done" /\ req[p].file # NoFile)
                => Allowed(req[p].db_content.content_type, req[p].file.content_type))
    /\ [][\A p \in Procs :
            (/\ Begins(p, "update") /\ req'[p].pc = "done"
             /\ records[req'[p].id] # NoRow)
                => /\ req'[p].status = 400
                   /\ req'[p].detail = "Invalid file type"
                   /\ req'[p].log = <<>>
                   /\ UNCHANGED <<records, blobs>>
       ]_vars
    /\ [](\A p \in Procs :
            (Answered(p, "update") /\ req[p].status = 400) => req[p].log = <<>>)

C14_Witness ==
    \E p \in Procs :
        /\ Answered(p, "update") /\ req[p].status = 400
        /\ records[req[p].id] # NoRow
        /\ records[req[p].id].title = "t1"
        /\ blobs = {StoredKey(records[req[p].id].storage_url)}

-----------------------------------------------------------------------------
(* C15 *)

\* C15: no step changes the id, the content_type or the created_at of a
\* record that exists before and after it, and the record an update answers
\* with carries the id, content_type and created_at of the record it found.
C15_IdentityColumnsImmutable ==
    /\ [][\A i \in Ids :
            (records[i] # NoRow /\ records'[i] # NoRow)
                => /\ records'[i].id = records[i].id
                   /\ records'[i].content_type = records[i].content_type
                   /\ records'[i].created_at = records[i].created_at
       ]_vars
    /\ [][\A p \in Procs :
            (At(p, "update", "commit") /\ StepOf(p) /\ req'[p].status = 200)
                => /\ req'[p].body[1].id = req[p].db_content.id
                   /\ req'[p].body[1].content_type = req[p].db_content.content_type
                   /\ req'[p].body[1].created_at = req[p].db_content.created_at
       ]_vars

C15_Witness ==
    \E p \in Procs :
        /\ Answered(p, "update") /\ req[p].status = 200
        /\ "upload" \in Range(req[p].log)
        /\ records[req[p].id] # NoRow
        /\ records[req[p].id].title = "t2"
        /\ records[req[p].id].id = req[p].id
        /\ records[req[p].id].content_type = "audio"
        /\ records[req[p].id].created_at = <<"now", req[p].id>>

-----------------------------------------------------------------------------
(* C16 *)

\* The kinds of request that name one record
ById == {"get", "update", "delete", "stream"}

\* C16: a get, update, delete or stream of an id that has no record is
\* answered 404 "Content not found" in its first step; that step calls
\* nothing in the object store and changes neither the records nor the
\* objects.
C16_MissingIdNotFound ==
    [][\A p \in Procs :
        (/\ \E op \in ById : Begins(p, op)
         /\ records[req'[p].id] = NoRow)
            => /\ req'[p].pc = "done"
               /\ req'[p].status = 404
               /\ req'[p].detail = "Content not found"
               /\ req'[p].log = <<>>
               /\ UNCHANGED <<records, blobs>>
      ]_vars

C16_Witness ==
    \E p, q \in Procs :
        /\ Answered(p, "stream") /\ req[p].status = 404
        /\ Answered(q, "update") /\ req[q].status = 404
        /\ records[req[p].id] = NoRow /\ records[req[q].id] = NoRow
        /\ blobs # {}

-----------------------------------------------------------------------------
(* C17 *)

\* C17: a stream of an id that has a record is answered in one step, with a
\* redirect when the URL was signed and with 500 otherwise; the target of
\* the redirect is exactly what generate_presigned_url returns for the
\* storage_url of that record, and the step changes nothing else.
C17_StreamRedirectsToPresignedUrl ==
    [][\A p \in Procs :
        (Begins(p, "stream") /\ records[req'[p].id] # NoRow)
            => /\ req'[p].pc = "done"
               /\ \/ /\ req'[p].status = 307
                     /\ req'[p].log = <<"presign">>
                     /\ req'[p].body =
                            generate_presigned_url(records[req'[p].id].storage_url, "ok")
                     /\ req'[p].body # None
                  \/ /\ req'[p].status = 500
                     /\ req'[p].log \in {<<"presign_none">>, <<"presign_raised">>}
                     /\ req'[p].body = None
               /\ UNCHANGED <<records, blobs>>
      ]_vars

C17_Witness ==
    \E p \in Procs :
        /\ Answered(p, "stream") /\ req[p].status = 307
        /\ records[req[p].id] # NoRow
        /\ req[p].body[1].path = StoredKey(records[req[p].id].storage_url)
        /\ req[p].body[1].ExpiresIn = DefaultExpiration

-----------------------------------------------------------------------------
(* C18 *)

\* C18: a stream is answered 404 exactly when the id has no record; when the
\* record exists and generate_presigned_url returns None, the answer is 500
\* with the detail reserved for that case.
C18_PresignNoneIsServerFault ==
    /\ [][\A p \in Procs :
            Begins(p, "stream")
                => (req'[p].status = 404 <=> records[req'[p].id] = NoRow)
       ]_vars
    /\ [](\A p \in Procs :
            (Answered(p, "stream") /\ req[p].log = <<"presign_none">>)
                => /\ req[p].status = 500
                   /\ req[p].detail = "Unable to generate presigned URL for streaming.")
    /\ [](\A p \in Procs :
            (Answered(p, "stream")
             /\ req[p].detail = "Unable to generate presigned URL for streaming.")
                => req[p].log = <<"presign_none">>)

C18_Witness ==
    \E p \in Procs :
        /\ Answered(p, "stream") /\ req[p].status = 500
        /\ req[p].log = <<"presign_none">>
        /\ records[req[p].id] # NoRow

-----------------------------------------------------------------------------
(* C19 *)

\* C19 (as claimed): whatever goes wrong while the URL is signed,
\* generate_presigned_url returns None and raises nothing, so a stream of an
\* existing record that gets no redirect is always answered through the
\* None branch of the controller. The code breaks it: only ClientError is
\* caught, any other exception leaves the function.
C19_PresignNeverRaises ==
    \A p \in Procs :
        (Answered(p, "stream") /\ req[p].status \notin {307, 404})
            => /\ "presign_raised" \notin Range(req[p].log)
               /\ req[p].log = <<"presign_none">>
               /\ req[p].detail = "Unable to generate presigned URL for streaming."

-----------------------------------------------------------------------------
(* C20 *)

\* C20: an upload, in a create or in an update, either returns the URL of
\* the object it stored or ends the request with S3UploadException, whatever
\* the store failed with; no request whose upload failed carries any other
\* error.
C20_UploadFailsOnlyWithUploadError ==
    /\ [][\A p \in Procs :
            ((At(p, "create", "upload") \/ At(p, "update", "upload")) /\ StepOf(p))
                => \/ /\ req'[p].pc = "done"
                      /\ req'[p].status = 500
                      /\ req'[p].detail = "S3UploadException"
                      /\ req'[p].log = <<"upload_failed">>
                      /\ UNCHANGED blobs
                   \/ /\ req'[p].pc # "done"
                      /\ req'[p].log = <<"upload">>
                      /\ req'[p].storage_url # None
                      /\ StoredKey(req'[p].storage_url[1]) \in blobs'
       ]_vars
    /\ [](\A p \in Procs :
            "upload_failed" \in Range(req[p].log)
                => req[p].pc = "done" /\ req[p].detail = "S3UploadException")

C20_Witness ==
    \E p, q \in Procs :
        /\ Answered(p, "create") /\ req[p].log = <<"upload_failed">>
        /\ req[p].detail = "S3UploadException"
        /\ Answered(q, "update") /\ req[q].log = <<"upload_failed">>
        /\ req[q].detail = "S3UploadException"

-----------------------------------------------------------------------------
(* C21 *)

\* The key has the form <content_type>/<content_id>.<extension>
KeyOf(key, content_type, content_id) ==
    /\ Len(key) > 4
    /\ SubSeq(key, 1, 4) = <<content_type, "/", content_id, ".">>
    /\ \A k \in 5..Len(key) : key[k] \notin {".", "/"}

\* C21: in every reachable state, every existing record is stored under its
\* own id, and both the key its storage_url resolves to and the key its
\* object was stored under are <content_type>/<id>.<extension>, with the
\* record's own content_type and id.
C21_KeyIsTypeIdExtension ==
    \A i \in Ids :
        records[i] # NoRow
            => /\ records[i].id = i
               /\ KeyOf(url_key(records[i].storage_url), records[i].content_type, i)
               /\ KeyOf(StoredKey(records[i].storage_url), records[i].content_type, i)

\* A record whose object was replaced by an update with a file of another
\* extension
C21_Witness ==
    \E p \in Procs :
        /\ Answered(p, "update") /\ req[p].status = 200
        /\ "upload" \in Range(req[p].log)
        /\ records[req[p].id] # NoRow
        /\ records[req[p].id].storage_url = req[p].body[1].storage_url
        /\ file_extension(<<"b", ".", "mpeg">>) =
               SubSeq(StoredKey(records[req[p].id].storage_url), 5, 5)

-----------------------------------------------------------------------------
(* C22 *)

\* The kinds of request that change content, and those that only read it
Mutating == {"create", "update", "delete"}
Reading == {"get", "list", "stream"}

\* The credentials are a bearer token that decodes, has not expired and names
\* a registered user
ValidCredentials(credentials) ==
    /\ credentials # NoCredentials
    /\ credentials.token.signed /\ ~credentials.token.expired
    /\ credentials.token.sub # None
    /\ \E i \in DOMAIN users : users[i].email = credentials.token.sub[1]

\* This step receives a request of kind op in slot p
Receives(p, op) == req[p].pc = "done" /\ StepOf(p) /\ req'[p].op = op

\* The first step of the request in slot p answers it with one of the given
\* statuses and runs nothing of the controller
TurnedAway(p, statuses) ==
    /\ req'[p].pc = "done"
    /\ req'[p].status \in statuses
    /\ req'[p].log = <<>> /\ req'[p].body = None
    /\ UNCHANGED <<records, blobs, nextId, loop, deleted, users>>

\* C22 (as claimed): a create, update or delete without a bearer token that
\* validates to a registered user is answered 401 in its first step, which
\* changes no record and no object. The code breaks it where no bearer
\* credentials are presented at all: HTTPBearer answers that itself, with 403
\* in the FastAPI releases that precede the change of its default to 401.
C22_RejectedWith401 ==
    [][\A p \in Procs : \A op \in Mutating :
        (Receives(p, op) /\ ~ValidCredentials(req'[p].credentials))
            => TurnedAway(p, {401})
      ]_vars

\* C22 (amended): a create, update or delete without a bearer token that
\* validates to a registered user is answered in its first step, which
\* changes no record and no object: with 401 "Could not validate credentials"
\* when the token does not validate, with 401 or 403 "Not authenticated" when
\* no bearer credentials are presented. One with a valid token is never
\* answered 401 or 403. A get, list or stream that presents no credentials is
\* never answered 401 or 403.
C22_GateBeforeCoordinator ==
    /\ [][\A p \in Procs : \A op \in Mutating :
            Receives(p, op)
                => IF ValidCredentials(req'[p].credentials)
                   THEN req'[p].status \notin {401, 403}
                   ELSE IF req'[p].credentials = NoCredentials
                   THEN /\ TurnedAway(p, {401, 403})
                        /\ req'[p].detail = "Not authenticated"
                   ELSE /\ TurnedAway(p, {401})
                        /\ req'[p].detail = "Could not validate credentials"
       ]_vars
    /\ [][\A p \in Procs : \A op \in Reading :
            Receives(p, op)
                => /\ req'[p].credentials = NoCredentials
                   /\ req'[p].status \notin {401, 403}
       ]_vars

\* A delete with the token of an address nobody registered was turned away
\* while a record existed, and a stream without credentials was redirected
C22_Witness ==
    /\ \E p \in Procs :
        /\ Answered(p, "delete") /\ req[p].status = 401
        /\ req[p].credentials # NoCredentials
        /\ req[p].credentials.token = create_access_token(<<"b", "@", "x.com">>)
    /\ \E p \in Procs :
        /\ Answered(p, "stream") /\ req[p].status = 307
        /\ req[p].credentials = NoCredentials
    /\ \E i \in Ids : records[i] # NoRow

-----------------------------------------------------------------------------
(* C23 *)

\* The ids that have a record
Existing == {i \in Ids : records[i] # NoRow}

\* C23: a record comes into being only in the step that answers a create
\* with 200, one record per such step, and goes away only by a committed
\* delete; and a listing with skip=0 and limit=100 answers 200 with every
\* existing record once, so with the empty sequence when nothing was created
\* and, as long as nothing was deleted, with as many entries as creates have
\* succeeded.
C23_ListReturnsEveryRecord ==
    /\ [][/\ \A i \in Ids :
              /\ (records[i] = NoRow /\ records'[i] # NoRow)
                    => \E p \in Procs :
                         /\ At(p, "create", "insert") /\ StepOf(p) /\ req[p].id = i
                         /\ req'[p].status = 200
              /\ (records[i] # NoRow /\ records'[i] = NoRow) => i \in deleted'
          /\ \A p \in Procs :
              (At(p, "create", "insert") /\ StepOf(p) /\ req'[p].status = 200)
                    => records[req[p].id] = NoRow /\ records'[req[p].id] # NoRow
       ]_vars
    /\ [][\A p \in Procs :
            (/\ Receives(p, "list")
             /\ req'[p].form = [skip |-> 0, limit |-> 100])
                => /\ req'[p].status = 200
                   /\ Len(req'[p].body) = Cardinality(Existing)
                   /\ \A i \in Existing :
                        Cardinality({k \in DOMAIN req'[p].body : req'[p].body[k] = records[i]}) = 1
                   /\ UNCHANGED <<records, blobs>>
       ]_vars

\* Two creates have succeeded, nothing was deleted, and the listing has two
\* entries
C23_Witness ==
    \E p \in Procs :
        /\ Answered(p, "list") /\ req[p].form = [skip |-> 0, limit |-> 100]
        /\ Len(req[p].body) = 2
        /\ deleted = {}
        /\ Cardinality(Existing) = 2

-----------------------------------------------------------------------------
(* C24 *)

\* C24: a registration of an address that is in the users table when it is
\* looked up (as EmailStr normalises it) is answered 400 "Email already
\* registered" in that step and adds no user; the table only ever grows by
\* one user with an address that was not in it; and in every reachable state
\* no two users share an address.
C24_DuplicateEmailRejected ==
    /\ [](\A i, j \in DOMAIN users : users[i].email = users[j].email => i = j)
    /\ [][\A p \in Procs :
            (Receives(p, "register") /\ email_taken(users, req'[p].form.email))
                => /\ req'[p].pc = "done"
                   /\ req'[p].status = 400
                   /\ req'[p].detail = "Email already registered"
                   /\ req'[p].body = None
                   /\ UNCHANGED users
       ]_vars
    /\ [][users' # users
            => /\ Len(users') = Len(users) + 1
               /\ SubSeq(users', 1, Len(users)) = users
               /\ ~email_taken(users, users'[Len(users')].email)
       ]_vars

\* A second registration of a@x.com was turned down with 400, and another
\* address is registered as well
C24_Witness ==
    /\ \E p \in Procs :
        /\ Answered(p, "register") /\ req[p].status = 400
        /\ req[p].detail = "Email already registered"
        /\ req[p].form.email = <<"a", "@", "x.com">>
    /\ Len(users) = 2
    /\ users[1].email = <<"a", "@", "x.com">>

-----------------------------------------------------------------------------
(* C25 *)

\* The address is registered and the password verifies against the hash
\* stored for it
GoodLogin(form) ==
    \E i \in DOMAIN users :
        /\ users[i].email = form.email
        /\ verify_password(form.password, users[i].hashed_password)

\* C25: a token request is answered in one step, which changes nothing: 200
\* with a bearer token for the address when the address is registered and the
\* password verifies against the hash stored for it, and 401 "Incorrect email
\* or password" otherwise, for an unknown address as for a wrong password.
C25_TokenIffCredentialsMatch ==
    [][\A p \in Procs :
        Receives(p, "login")
            => /\ req'[p].pc = "done"
               /\ UNCHANGED users
               /\ IF GoodLogin(req'[p].form)
                  THEN /\ req'[p].status = 200
                       /\ req'[p].body =
                            Some([access_token |-> create_access_token(req'[p].form.email),
                                  token_type   |-> "bearer"])
                  ELSE /\ req'[p].status = 401
                       /\ req'[p].detail = "Incorrect email or password"
                       /\ req'[p].body = None
      ]_vars

\* A registered address got a token with its password and was turned down
\* with another one
C25_Witness ==
    /\ \E p \in Procs :
        /\ Answered(p, "login") /\ req[p].status = 200
        /\ req[p].form = [email |-> <<"a", "@", "x.com">>, password |-> [head |-> "pw", tail |-> ""]]
    /\ \E p \in Procs :
        /\ Answered(p, "login") /\ req[p].status = 401
        /\ req[p].form = [email |-> <<"a", "@", "x.com">>, password |-> [head |-> "other", tail |-> ""]]
    /\ \E i \in DOMAIN users : users[i].email = <<"a", "@", "x.com">>

-----------------------------------------------------------------------------
(* C26 *)

\* What a request logs for each kind of step, whether the step succeeded or not
UploadEvents == {"upload", "upload_failed"}
BlobDeleteEvents == {"delete_old", "delete_old_failed", "delete_file", "delete_file_failed"}
PresignEvents == {"presign", "presign_none", "presign_raised"}
DbWriteEvents == {"insert", "insert_failed", "update", "update_failed",
                  "delete_row", "delete_row_failed"}
StepKinds == {UploadEvents, BlobDeleteEvents, PresignEvents, DbWriteEvents}

\* What a request logs for a step that failed
FailureEvents == {"upload_failed", "delete_old_failed", "delete_file_failed",
                  "presign_none", "presign_raised",
                  "insert_failed", "update_failed", "delete_row_failed"}

\* How many steps of a kind a log has
Attempts(log, kind) == Cardinality({k \in DOMAIN log : log[k] \in kind})

\* C26: no request attempts an upload, a blob deletion, a presign or a
\* database write more than once; the objects change only in a step that
\* attempts an upload or a blob deletion and the records only in a step that
\* attempts a database write; and the step in which an attempt fails ends the
\* request with 500, except the failed deletion of the old blob in an update,
\* after which the update goes on to its database write without another
\* deletion.
C26_NoRetry ==
    /\ [](\A p \in Procs : \A kind \in StepKinds : Attempts(req[p].log, kind) <= 1)
    /\ [][\A p \in Procs :
            StepOf(p)
                => LET old == IF req[p].pc = "done" THEN <<>> ELSE req[p].log
                       new == req'[p].log
                   IN  /\ \/ new = old
                          \/ /\ Len(new) = Len(old) + 1
                             /\ SubSeq(new, 1, Len(old)) = old
                       /\ (new # old /\ new[Len(new)] \in FailureEvents)
                            => \/ req'[p].pc = "done" /\ req'[p].status = 500
                               \/ /\ new[Len(new)] = "delete_old_failed"
                                  /\ req'[p].pc = "commit"
       ]_vars
    /\ [][/\ blobs' # blobs
             => \E p \in Procs :
                  /\ StepOf(p) /\ req'[p].log # <<>>
                  /\ req'[p].log[Len(req'[p].log)] \in UploadEvents \cup BlobDeleteEvents
                  /\ Len(req'[p].log) = Len(req[p].log) + 1
          /\ records' # records
             => \E p \in Procs :
                  /\ StepOf(p) /\ req'[p].log # <<>>
                  /\ req'[p].log[Len(req'[p].log)] \in DbWriteEvents
                  /\ Len(req'[p].log) = Len(req[p].log) + 1
       ]_vars

\* An update whose upload succeeded and whose deletion of the old blob
\* failed was answered after one database write, and a create whose upload
\* failed was answered 500
C26_Witness ==
    /\ \E p \in Procs :
        /\ Answered(p, "update")
        /\ req[p].log = <<"upload", "delete_old_failed", "update_failed">>
        /\ req[p].status = 500
    /\ \E p \in Procs :
        /\ Answered(p, "create") /\ req[p].log = <<"upload_failed">>
        /\ req[p].status = 500

-----------------------------------------------------------------------------
(* C27 *)

\* C27: a record of an id comes into being only by the insert of the create
\* that drew the id, and only for an id that was never deleted; a record that
\* stays is changed only by the database write of an update of its id and
\* keeps its id; a record goes away only by the database write of a delete
\* of its id, and an id that was deleted has no record ever after; the id a
\* create draws has no record, was never deleted and is the id of no other
\* request's create.
C27_Lifecycle ==
    /\ [](\A i \in deleted : records[i] = NoRow)
    /\ [][\A i \in Ids :
            /\ (records[i] = NoRow /\ records'[i] # NoRow)
                 => /\ i \notin deleted
                    /\ \E p \in Procs :
                         At(p, "create", "insert") /\ StepOf(p) /\ req[p].id = i
            /\ (records[i] # NoRow /\ records'[i] # NoRow /\ records'[i] # records[i])
                 => /\ records'[i].id = i
                    /\ \E p \in Procs :
                         At(p, "update", "commit") /\ StepOf(p) /\ req[p].id = i
            /\ (records[i] # NoRow /\ records'[i] = NoRow)
                 => /\ i \in deleted'
                    /\ \E p \in Procs :
                         At(p, "delete", "delete_row") /\ StepOf(p) /\ req[p].id = i
            /\ i \in deleted => i \in deleted'
       ]_vars
    /\ [][\A p \in Procs :
            (Begins(p, "create") /\ req'[p].pc = "upload")
                => /\ records[req'[p].id] = NoRow
                   /\ req'[p].id \notin deleted
                   /\ \A q \in Procs \ {p} :
                        (req[q].op = "create" /\ req[q].pc # "done")
                            => req[q].id # req'[p].id
       ]_vars

\* An id was deleted while an update of it was under way, and the update
\* failed at its database write and left the id without a record
C27_Witness ==
    \E p \in Procs :
        /\ Answered(p, "update") /\ req[p].status = 500
        /\ req[p].log # <<>> /\ req[p].log[Len(req[p].log)] = "update_failed"
        /\ req[p].id \in deleted
        /\ records[req[p].id] = NoRow

-----------------------------------------------------------------------------
(* C28 *)

\* The objects stored for an id
BlobsOf(i) == {key \in blobs : Len(key) > 4 /\ key[3] = i}

\* C28: the step in which the insert of a create fails answers the request
\* with 500 and touches no object, so that the object the create uploaded
\* stays in the store and its id has no record; and as long as that answer
\* stands, the id has an object in the store and no record.
C28_FailedInsertLeavesBlob ==
    /\ [][\A p \in Procs :
            (At(p, "create", "insert") /\ StepOf(p) /\ req'[p].status # 200)
                => /\ req'[p].pc = "done" /\ req'[p].status = 500
                   /\ req'[p].log = <<"upload", "insert_failed">>
                   /\ unique_filename(req[p].file, req[p].form.content_type, req[p].id) \in blobs'
                   /\ records'[req[p].id] = NoRow
                   /\ UNCHANGED <<records, blobs>>
       ]_vars
    /\ [](\A p \in Procs :
            (Answered(p, "create") /\ req[p].log = <<"upload", "insert_failed">>)
                => /\ BlobsOf(req[p].id) # {}
                   /\ records[req[p].id] = NoRow)

\* A create was answered 500 after its insert failed, and the only object in
\* the store is the one it uploaded, with no record at all
C28_Witness ==
    \E p \in Procs :
        /\ Answered(p, "create") /\ req[p].status = 500
        /\ req[p].log = <<"upload", "insert_failed">>
        /\ blobs = BlobsOf(req[p].id) /\ blobs # {}
        /\ \A i \in Ids : records[i] = NoRow

-----------------------------------------------------------------------------
(* C29 *)

\* Slot p holds an update with a replacement file that has fetched its
\* record and has not yet written it
UpdateUnderWay(p, i) ==
    /\ req[p].op = "update" /\ req[p].pc \in {"upload", "delete_old", "commit"}
    /\ req[p].file # NoFile /\ req[p].id = i

\* Slot q holds a delete that has fetched its record and has not yet removed it
DeleteUnderWay(q, i) ==
    /\ req[q].op = "delete" /\ req[q].pc \in {"delete_file", "delete_row"}
    /\ req[q].id = i

\* C29: requests on one id are not serialized. While an update with a
\* replacement file of a record is under way, a delete of the same record
\* can be taken up and get past its fetch; and while a delete of a record
\* is under way, an update of the same record with a replacement file can.
C29_SameIdNotSerialized ==
    \A p, q \in Procs : \A i \in Ids :
        (p # q /\ records[i] # NoRow /\ CanReceive(q))
            => /\ UpdateUnderWay(p, i)
                    => ENABLED (/\ delete_content_begin(q)
                                /\ DeleteUnderWay(q, i)')
               /\ (DeleteUnderWay(p, i) /\ LoopFree(q))
                    => ENABLED (/\ update_content_begin(q)
                                /\ UpdateUnderWay(q, i)')

\* The final state of such an interleaving: an update that replaced the
\* file and a delete of the same id, neither of which met a failure, were
\* both answered 200, the id has no record, and an object of the id, one
\* whose URL parses back to its key, is still in the store
C29_Witness ==
    /\ Quiescent
    /\ \E p, q \in Procs :
        /\ Answered(p, "update") /\ req[p].status = 200
        /\ req[p].log = <<"upload", "delete_old", "update">>
        /\ Answered(q, "delete") /\ req[q].status = 200
        /\ req[q].log = <<"delete_file", "delete_row">>
        /\ req[q].id = req[p].id
        /\ records[req[p].id] = NoRow
        /\ \E key \in BlobsOf(req[p].id) : "#" \notin Range(key)

-----------------------------------------------------------------------------
(* C30 *)

\* Slot p holds an update whose upload returned the storage_url the record
\* had when the update fetched it
SameUrlUpdate(p) ==
    /\ req[p].op = "update" /\ req[p].pc # "done"
    /\ req[p].storage_url = Some(req[p].db_content.storage_url)

\* The step of an update's upload goes on to the deletion of the old blob
\* exactly when the upload succeeded with a URL other than the one the update
\* fetched, an update deletes a blob in no other step than that deletion, and
\* the upload leaves the blob of the URL it returns in the store
C30_DeletionOnlyOnNewUrl ==
    [][\A p \in Procs :
        /\ (At(p, "update", "upload") /\ StepOf(p) /\ req'[p].pc # "done")
              => /\ req'[p].pc = "delete_old"
                     <=> req'[p].storage_url # Some(req[p].db_content.storage_url)
                 /\ StoredKey(req'[p].storage_url[1]) \in blobs'
        /\ (req[p].op = "update" /\ req[p].pc # "done" /\ StepOf(p)
            /\ req'[p].log # req[p].log
            /\ req'[p].log[Len(req'[p].log)] \in BlobDeleteEvents)
              => req[p].pc = "delete_old"
        /\ (SameUrlUpdate(p) /\ StepOf(p))
              => /\ req'[p].log[Len(req'[p].log)] \notin BlobDeleteEvents
                 /\ UNCHANGED blobs
      ]_vars

\* C30 (as claimed): what is above, and the blob of the unchanged URL is in
\* the store when such an update is answered. The code breaks the latter:
\* nothing keeps a delete of the same id from removing the blob between the
\* upload and the answer.
C30_BlobExistsAfterSameUrlUpdate ==
    /\ C30_DeletionOnlyOnNewUrl
    /\ [][\A p \in Procs :
            (SameUrlUpdate(p) /\ StepOf(p) /\ req'[p].pc = "done")
                => StoredKey(req[p].storage_url[1]) \in blobs'
       ]_vars

\* C30 (amended): what is above, and from the upload of such an update on
\* the blob of the unchanged URL leaves the store only in a step of another
\* request, the blob deletion of a delete or of an update, never in a step of
\* the update itself.
C30_BlobKeptBySameUrlUpdate ==
    /\ C30_DeletionOnlyOnNewUrl
    /\ [][\A p \in Procs :
            (SameUrlUpdate(p) /\ StoredKey(req[p].storage_url[1]) \in blobs \ blobs')
                => \E q \in Procs \ {p} :
                     /\ StepOf(q)
                     /\ \/ At(q, "delete", "delete_file")
                        \/ At(q, "update", "delete_old")
       ]_vars

\* An update that replaced a.mp4 by a.mp4 was answered 200 without a blob
\* deletion, and the blob is in the store
C30_Witness ==
    \E p \in Procs :
        /\ Answered(p, "update") /\ req[p].status = 200
        /\ req[p].log = <<"upload", "update">>
        /\ records[req[p].id] # NoRow
        /\ StoredKey(records[req[p].id].storage_url) \in blobs
        /\ Cardinality(blobs) = 1

-----------------------------------------------------------------------------
(* C31 *)

\* The columns of a row that an update can write
Writable == UpdateFields \cup {"storage_url"}

\* This step is the database write of the update with a replacement file in
\* slot p, and it is answered 200
FileUpdateCommits(p) ==
    /\ At(p, "update", "commit") /\ StepOf(p)
    /\ req[p].file # NoFile /\ req'[p].status = 200

\* C31 (as claimed): the step that answers an update with a replacement file
\* with 200 leaves the record with the storage_url the upload returned and
\* with every metadata value of the update. The code breaks it: the UPDATE
\* names only the attributes that differ from the row as the update fetched
\* it, so when another update of the same id has committed another URL in
\* between and the upload returns the URL that was fetched, the record keeps
\* the other update's URL next to this update's metadata.
C31_NewUrlWithNewMetadata ==
    [][\A p \in Procs :
        FileUpdateCommits(p)
            => \A k \in Writable :
                 Col(records'[req[p].id], k) = req[p].update_data[k]
      ]_vars

\* C31 (amended): an update with a replacement file writes the record in one
\* step: the step that answers it with 200 sets every attribute whose value
\* differs from the row as the update fetched it, storage_url among them,
\* and leaves the others as they are; an update that is not answered 200
\* writes nothing; a record that stays changes in no other step than such a
\* write; and a get answered 200 returns the record as it is in the table.
C31_OneCommit ==
    /\ [][\A p \in Procs :
            (At(p, "update", "commit") /\ StepOf(p))
                => IF req'[p].status = 200
                   THEN LET old == records[req[p].id]
                            new == records'[req[p].id]
                            set == changed_columns(req[p].db_content, req[p].update_data)
                        IN  /\ \A k \in set : Col(new, k) = req[p].update_data[k]
                            /\ \A k \in Writable \ set : Col(new, k) = Col(old, k)
                            /\ req'[p].body = Some(new)
                   ELSE UNCHANGED records
       ]_vars
    /\ [][\A i \in Ids :
            (records[i] # NoRow /\ records'[i] # NoRow /\ records'[i] # records[i])
                => \E p \in Procs :
                     At(p, "update", "commit") /\ StepOf(p) /\ req[p].id = i
       ]_vars
    /\ [][\A p \in Procs :
            (Begins(p, "get") /\ req'[p].status = 200)
                => req'[p].body = Some(records[req'[p].id])
       ]_vars

\* After an update that replaced a.mp4 by b.mpeg and set title, description
\* and duration, a get was answered with the new URL and the new metadata
C31_Witness ==
    \E q \in Procs :
        /\ Answered(q, "get") /\ req[q].status = 200
        /\ req[q].body = Some(records[req[q].id])
        /\ req[q].body[1].title = "t2" /\ req[q].body[1].duration = 20
        /\ file_extension(<<"b", ".", "mpeg">>) = SubSeq(StoredKey(req[q].body[1].storage_url), 5, 5)
        /\ blobs = {StoredKey(req[q].body[1].storage_url)}

-----------------------------------------------------------------------------
(* C32 *)

\* The key under which the upload of the request in slot p stored its object
UploadedKey(p) ==
    unique_filename(req[p].file,
                    IF req[p].op = "create" THEN req[p].form.content_type
                    ELSE req[p].db_content.content_type,
                    req[p].id)

\* C32 (as claimed): whenever an upload has returned a storage reference to
\* a create or an update, the key that delete_file and generate_presigned_url
\* derive from that reference is the key under which the upload stored the
\* object. The code breaks it: the reference is the key appended to the
\* bucket URL as it is, and urlparse ends the path at the first '#' or '?'
\* and drops the ';' parameters of the last segment, all of which the
\* extension of a file name can hold.
C32_KeyRoundTrip ==
    \A p \in Procs :
        (req[p].op \in {"create", "update"} /\ req[p].pc # "done"
         /\ req[p].storage_url # None)
            => /\ req[p].storage_url[1] = object_url(UploadedKey(p))
               /\ url_key(req[p].storage_url[1]) = UploadedKey(p)

-----------------------------------------------------------------------------
(* C33 *)

\* The five pairs of the allow-list
AllowedPairs ==
    { <<"video", "video/mp4">>, <<"video", "video/mpeg">>,
      <<"audio", "audio/mpeg">>, <<"audio", "audio/mp3">>, <<"audio", "audio/wav">> }

\* C33: every call of validate_file_type returns true when the pair of
\* content_type and MIME type is one of the five of the allow-list, and false
\* for any other pair.
C33_AllowListExact ==
    \A p \in Procs :
        Answered(p, "validate")
            => req[p].body =
                 Some(<<req[p].form.content_type, req[p].file.content_type>> \in AllowedPairs)

\* Calls have returned true for (audio, audio/wav) and false for
\* (video, audio/wav)
C33_Witness ==
    \E p, q \in Procs :
        /\ Answered(p, "validate") /\ req[p].form.content_type = "audio"
        /\ req[p].file.content_type = "audio/wav" /\ req[p].body = Some(TRUE)
        /\ Answered(q, "validate") /\ req[q].form.content_type = "video"
        /\ req[q].file.content_type = "audio/wav" /\ req[q].body = Some(FALSE)

-----------------------------------------------------------------------------
(* C34 *)

\* C34 (as claimed): in every reachable state every record has a title that
\* is not empty and a duration that is not negative. The code breaks the
\* latter: duration is declared int in the routes and in the schemas, with no
\* lower bound, and the column has no check, so a create or an update with a
\* duration below zero is stored as it is.
C34_TitleAndDurationValid ==
    \A i \in Ids :
        records[i] # NoRow
            => /\ records[i].title # ""
               /\ records[i].duration >= 0

-----------------------------------------------------------------------------
(* C35 *)

\* Slot p holds an update with a replacement file that is past validation
\* and not yet answered
ReplacementUnderWay(p) ==
    req[p].op = "update" /\ req[p].pc # "done" /\ req[p].file # NoFile

\* Of the object stored for the record as the update in slot p fetched it
\* and the object the update stores, at least one is in the store
OldOrNew(p, store) ==
    \/ StoredKey(req[p].db_content.storage_url) \in store
    \/ UploadedKey(p) \in store

\* C35 (as claimed): at every step of an update with a replacement file, the
\* old object or the new one is in the store. The code breaks it: requests
\* on one id are not serialized, so a delete or another update of the same
\* id removes the object between two steps of the update.
C35_OldOrNewExists ==
    \A p \in Procs : ReplacementUnderWay(p) => OldOrNew(p, blobs)

\* C35 (amended): in an update with a replacement file the deletion of the
\* old object is attempted only after the upload has succeeded and after
\* nothing else, and the step in which the upload succeeds leaves the new
\* object in the store. That one of the two objects is in the store at every
\* step does not follow, not even across the update's own steps: the
\* deletion of the old object removes the last of the two when another
\* request on the same id has removed the new one in between.
C35_UploadBeforeDeletion ==
    [][\A p \in Procs :
        /\ (At(p, "update", "delete_old") /\ StepOf(p)) => req[p].log = <<"upload">>
        /\ (At(p, "update", "upload") /\ StepOf(p) /\ req'[p].pc # "done")
              => UploadedKey(p) \in blobs'
      ]_vars

\* An update has uploaded b.mpeg for a record stored as a.mp4 and deleted
\* the old object, and is about to write the record: the new object alone is
\* in the store
C35_Witness ==
    \E p \in Procs :
        /\ At(p, "update", "commit")
        /\ req[p].log = <<"upload", "delete_old">>
        /\ StoredKey(req[p].db_content.storage_url) \notin blobs
        /\ blobs = {UploadedKey(p)}
        /\ records[req[p].id] # NoRow

-----------------------------------------------------------------------------
(* C36 *)

\* The kinds of request that work on one content id
OnOneId == {"create", "update", "delete", "stream"}

\* The record stored under id i has its object in the given store
HasBlob(i, store) ==
    records[i] # NoRow /\ StoredKey(records[i].storage_url) \in store

\* C36: no step of a create, update, delete or stream of one id changes the
\* record of another id, takes away or adds the object of the record of
\* another id, or changes the set of objects stored for another id.
C36_OtherIdsUntouched ==
    [][\A p \in Procs :
        (<<records, blobs>>' # <<records, blobs>> /\ StepOf(p) /\ req'[p].op \in OnOneId)
            => \A i \in Ids \ {req'[p].id} :
                 /\ records'[i] = records[i]
                 /\ HasBlob(i, blobs') <=> HasBlob(i, blobs)
                 /\ BlobsOf(i)' = BlobsOf(i)
      ]_vars

\* A delete of one id was answered 200 while another id has its record and
\* its object
C36_Witness ==
    \E p \in Procs :
        /\ Answered(p, "delete") /\ req[p].status = 200
        /\ records[req[p].id] = NoRow /\ BlobsOf(req[p].id) = {}
        /\ \E i \in Ids \ {req[p].id} : HasBlob(i, blobs) /\ BlobsOf(i) # {}

-----------------------------------------------------------------------------
(* C37 *)

\* C37: get, list and stream are read-only. No step of such a request,
\* whether the request is answered with success, turned down or fails,
\* inserts, modifies or deletes a record, or uploads or deletes an object.
C37_ReadsChangeNothing ==
    [][\A p \in Procs :
        (StepOf(p) /\ req'[p].op \in Reading)
            => UNCHANGED <<records, blobs, nextId, deleted>>
      ]_vars

\* Reads of each kind have been answered, one of them with a failure, while
\* a record and an object exist
C37_Witness ==
    /\ \E i \in Ids : records[i] # NoRow
    /\ blobs # {}
    /\ \E p \in Procs : Answered(p, "stream") /\ req[p].status \in {404, 500}
    /\ \E p \in Procs : Answered(p, "get") /\ req[p].status = 200

====
